---------------------------- MODULE Spec2Model ----------------------------
(***************************************************************************)
(* api2go: the resource dispatch engine of api.go.                         *)
(*                                                                         *)
(* One API value (prefix + router), one registered resource, one           *)
(* in-memory data source and the request currently being served.  Every    *)
(* handler is a step function over the request's frame (its stack-local    *)
(* state) and the data source; a step is one call to a collaborator (data  *)
(* source, controller, codec) together with all the local code up to the   *)
(* next such call.  Strings are sequences of one-character strings.        *)
(***************************************************************************)
EXTENDS Naturals, Sequences, FiniteSets, TLC

(***************************** bounds **************************************)
\* records the data source accepts before Create starts to fail
MaxRecords == 2
\* records a request document may describe
MaxDocLen == 2
\* comma-separated elements of an id path segment
MaxIds == 2
\* requests served in one behaviour
MaxRequests == 1

(***************************** strings *************************************)
RECURSIVE SplitFrom(_, _, _)
\* strings.Split(s, sep) for a one-character sep: cur is the element being read
SplitFrom(s, sep, cur) ==
    IF s = <<>> THEN <<cur>>
    ELSE IF Head(s) = sep THEN <<cur>> \o SplitFrom(Tail(s), sep, <<>>)
    ELSE SplitFrom(Tail(s), sep, Append(cur, Head(s)))

Split(s, sep) == SplitFrom(s, sep, <<>>)

RECURSIVE TrimLeft(_, _)
TrimLeft(s, c) ==
    IF s # <<>> /\ Head(s) = c THEN TrimLeft(Tail(s), c) ELSE s

RECURSIVE TrimRight(_, _)
TrimRight(s, c) ==
    IF s # <<>> /\ s[Len(s)] = c THEN TrimRight(SubSeq(s, 1, Len(s) - 1), c) ELSE s

\* strings.Trim(s, c) for a one-character cutset
Trim(s, c) == TrimRight(TrimLeft(s, c), c)

RECURSIVE Join(_, _)
Join(parts, sep) ==
    IF parts = <<>> THEN <<>>
    ELSE IF Len(parts) = 1 THEN parts[1]
    ELSE parts[1] \o <<sep>> \o Join(Tail(parts), sep)

SeqsUpTo(S, n) == UNION {[1..k -> S] : k \in 0..n}

(***************************** records *************************************)
Fields == {"title", "text"}

\* the zero value of the record type
ZeroRecord == [id |-> <<>>, title |-> "", text |-> ""]

Digit == <<"1", "2", "3", "4", "5", "6", "7", "8", "9">>
IdOf(n) == <<Digit[n]>>

\* a wire document's record: the fields it names, each with the document's value
Partials == UNION {[F -> {"b"}] : F \in SUBSET Fields}

NoObj == [shape |-> "nil", items |-> <<>>]
One(r) == [shape |-> "one", items |-> <<r>>]
Many(rs) == [shape |-> "many", items |-> rs]

(***************************** errors **************************************)
NoErr == [kind |-> "nil", status |-> 0, msg |-> "", Errors |-> <<>>, from |-> ""]

\* an error value of the given outcome, raised by `from`
MkErr(out, from) ==
    CASE out = "http404" ->
           [kind |-> "HTTPError", status |-> 404, msg |-> "not found",
            Errors |-> <<>>, from |-> from]
      [] out = "http422" ->
           [kind |-> "HTTPError", status |-> 422, msg |-> "invalid",
            Errors |-> <<"e1", "e2">>, from |-> from]
      [] out = "http400" ->
           [kind |-> "HTTPError", status |-> 400, msg |-> "decode",
            Errors |-> <<>>, from |-> from]
      [] OTHER ->
           [kind |-> "error", status |-> 0, msg |-> out, Errors |-> <<>>, from |-> from]

SourceOutcomes == {"ok", "error", "http404", "http422"}
HookOutcomes == {"ok", "replace", "error", "http422"}
\* respondWith: encoded and written, MarshalToJSON failed, or w.Write failed
EncodeOutcomes == {"ok", "error", "writefail"}


(***************************** data source *********************************)
\* The data source is a collaborator behind the DataSource interface: an
\* in-memory table id -> record whose every call may also fail (out # "ok").
StoreOf(k) == [recs |-> [i \in {IdOf(n) : n \in 1..k} |-> [id |-> i, title |-> "a", text |-> "a"]],
               nextID |-> k + 1]

\* the data source when the server starts: empty, partly filled or full
InitStores == {StoreOf(k) : k \in 0..MaxRecords}

Has(st, id) == id \in DOMAIN st.recs

RECURSIVE RecsFrom(_, _)
\* the stored records with id number >= n, in id order
RecsFrom(st, n) ==
    IF n >= st.nextID THEN <<>>
    ELSE (IF Has(st, IdOf(n)) THEN <<st.recs[IdOf(n)]>> ELSE <<>>) \o RecsFrom(st, n + 1)

RECURSIVE RecsOf(_, _)
\* the stored records among ids, in the order of ids
RecsOf(st, ids) ==
    IF ids = <<>> THEN <<>>
    ELSE (IF Has(st, Head(ids)) THEN <<st.recs[Head(ids)]>> ELSE <<>>) \o RecsOf(st, Tail(ids))

srcFindAll(st, req, out) ==
    IF out # "ok" THEN [err |-> MkErr(out, "source.FindAll"), val |-> NoObj, st |-> st]
    ELSE [err |-> NoErr, val |-> Many(RecsFrom(st, 1)), st |-> st]

srcFindOne(st, id, req, out) ==
    LET o == IF out = "ok" /\ ~Has(st, id) THEN "http404" ELSE out IN
    IF o # "ok" THEN [err |-> MkErr(o, "source.FindOne"), val |-> NoObj, st |-> st]
    ELSE [err |-> NoErr, val |-> One(st.recs[id]), st |-> st]

srcFindMultiple(st, ids, req, out) ==
    IF out # "ok" THEN [err |-> MkErr(out, "source.FindMultiple"), val |-> NoObj, st |-> st]
    ELSE [err |-> NoErr, val |-> Many(RecsOf(st, ids)), st |-> st]

srcCreate(st, obj, out) ==
    LET o  == IF out = "ok" /\ st.nextID > MaxRecords THEN "error" ELSE out
        id == IdOf(st.nextID)
        r  == [obj.items[1] EXCEPT !.id = id] IN
    IF o # "ok" THEN [err |-> MkErr(o, "source.Create"), val |-> <<>>, st |-> st]
    ELSE [err |-> NoErr, val |-> id,
          st |-> [recs |-> (id :> r) @@ st.recs, nextID |-> st.nextID + 1]]

srcDelete(st, id, out) ==
    LET o == IF out = "ok" /\ ~Has(st, id) THEN "http404" ELSE out IN
    IF o # "ok" THEN [err |-> MkErr(o, "source.Delete"), st |-> st]
    ELSE [err |-> NoErr,
          st |-> [st EXCEPT !.recs = [i \in DOMAIN st.recs \ {id} |-> st.recs[i]]]]

srcUpdate(st, obj, out) ==
    LET r == obj.items[1]
        o == IF out = "ok" /\ ~Has(st, r.id) THEN "http404" ELSE out IN
    IF o # "ok" THEN [err |-> MkErr(o, "source.Update"), st |-> st]
    ELSE [err |-> NoErr, st |-> [st EXCEPT !.recs[r.id] = r]]

(***************************** controller **********************************)
\* what a hook that rewrites the in-flight value leaves in place
Rewritten(r) == [r EXCEPT !.text = IF @ = "a" THEN "b" ELSE "a"]

\* A controller hook called with a pointer to the in-flight value.
ctlHook(op, obj, out) ==
    [err |-> IF out \in {"ok", "replace"} THEN NoErr ELSE MkErr(out, op),
     obj |-> IF out = "replace"
             THEN [obj EXCEPT !.items = [i \in DOMAIN obj.items |-> Rewritten(obj.items[i])]]
             ELSE obj]

(***************************** codec ***************************************)
\* one decoded record: the target's fields, overwritten by those the document names
Merge(target, p) == [f \in DOMAIN target |-> IF f \in DOMAIN p THEN p[f] ELSE target[f]]

\* Decode the document's records onto the target slice.
unmarshalInto(ctx, target) ==
    IF ctx.bad THEN [err |-> MkErr("http400", "unmarshalInto"), slice |-> target]
    ELSE [err |-> NoErr,
          slice |-> [i \in 1..Len(ctx.recs) |->
                       Merge(IF i <= Len(target) THEN target[i] ELSE ZeroRecord, ctx.recs[i])]]

\* Encode a record (item document) or a sequence of records (collection document).
MarshalToJSON(obj, out) ==
    IF out # "ok" THEN [err |-> MkErr(out, "MarshalToJSON"), data |-> <<>>]
    ELSE [err |-> NoErr,
          data |-> <<[ctype |-> IF obj.shape = "one" THEN "item" ELSE "collection",
                      data |-> obj.items]>>]

\* the JSON document of an HTTPError's sub-errors
marshalError(e) == <<[ctype |-> "errors", data |-> e.Errors]>>

\* a chunk of plain text
Text(s) == <<[ctype |-> "text", data |-> <<s>>]>>

Lower(c) == IF c = "P" THEN "p" ELSE c
pluralize(name) == Append(name, "s")
jsonify(name) == [i \in DOMAIN name |-> Lower(name[i])]

(***************************** response writer *****************************)
\* status and headers as sent, body: the data handed to w.Write, wfail: a
\* w.Write returned an error (the client may have got only part of the data)
NewResponse == [status |-> 0, writes |-> 0, headers |-> <<>>, body |-> <<>>,
                wfail |-> FALSE]

\* w.Header().Set(name, value)
SetHeader(w, name, value) ==
    [w EXCEPT !.headers = [n \in DOMAIN w.headers \cup {name} |->
                             IF n = name THEN value ELSE w.headers[n]]]

\* w.WriteHeader(status): the first call decides the status
WriteHeader(w, status) ==
    [w EXCEPT !.writes = @ + 1, !.status = IF w.writes = 0 THEN status ELSE @]

\* w.Write(data)
Write(w, data) == [w EXCEPT !.body = @ \o data]

\* w.Write(data) returning an error
WriteFailing(w, data) == [Write(w, data) EXCEPT !.wfail = TRUE]

\* http.Error(w, text, status): a text/plain response of text and a line end
httpError(w, text, status) ==
    Write(WriteHeader(SetHeader(w, "Content-Type", <<"text/plain">>), status),
          text \o Text("\n"))


(***************************** requests ************************************)
\* id path segments: 1..MaxIds elements, each "1", "2" or empty, joined by commas;
\* the router's :id matches no empty segment
PathIds == {<<"1">>, <<"2">>, <<>>}
Segs == {Join(ids, ",") : ids \in SeqsUpTo(PathIds, MaxIds) \ {<<>>}} \ {<<>>}

\* URL queries, as url.Values: key -> the values given for it, in order
Queries == {<<>>, ("k" :> << <<"a", ",", "b">>, <<"c">> >>)}

\* request bodies: unreadable, not a JSON object, or a document of records
Docs == {[kind |-> "doc", recs |-> rs, bad |-> FALSE] : rs \in SeqsUpTo(Partials, MaxDocLen)}
Bodies == Docs \cup
          {[kind |-> "doc", recs |-> <<[f \in {"title"} |-> "b"]>>, bad |-> TRUE],
           [kind |-> "unreadable", recs |-> <<>>, bad |-> FALSE],
           [kind |-> "badjson", recs |-> <<>>, bad |-> FALSE]}

NoBody == [kind |-> "none", recs |-> <<>>, bad |-> FALSE]

Verbs == {"INDEX", "READ", "CREATE", "UPDATE", "DELETE"}

\* the frame of a request: what its handler holds on its stack, the response
\* writer w, and the history of the calls it made (calls) and of the log (logged)
NewFrame(verb, seg, query, pc) ==
    [verb |-> verb, seg |-> seg, query |-> query, pc |-> pc, body |-> NoBody,
     obj |-> NoObj, id |-> <<>>, w |-> NewResponse, calls |-> <<>>, logged |-> <<>>, err |-> NoErr]

IdleFrame == NewFrame("none", <<>>, <<>>, "done")

\* the frame after a call to a collaborator
\* (op called with arg returned err and left the in-flight value `left`)
Called(f, op, arg, err, left) ==
    [f EXCEPT !.calls = Append(@, [call |-> op, ok |-> err = NoErr, with |-> arg,
                                   left |-> left])]

buildRequest(query) == [k \in DOMAIN query |-> Split(query[k][1], ",")]

(***************************** error translator ****************************)
\* handleError answering every error alike, whatever status it carries
handleErrorAll500(err, w) == WriteHeader(w, 500)

handleError(err, w) ==
    IF err.kind = "HTTPError"
    THEN IF Len(err.Errors) > 0
         THEN httpError(w, marshalError(err), err.status)
         ELSE httpError(w, Text(err.msg), err.status)
    ELSE WriteHeader(w, 500)

\* The route's closure: the handler returned err.
\* the handler's error wrapped into a plain error before it reaches handleError
ReturnWrapped(f, err) ==
    LET e == [err EXCEPT !.kind = "error", !.status = 0, !.Errors = <<>>] IN
    IF err # NoErr
    THEN [f EXCEPT !.pc = "done", !.err = e, !.logged = Append(@, e),
                   !.w = handleError(e, f.w)]
    ELSE [f EXCEPT !.pc = "done"]

Return(f, err) ==
    IF err # NoErr
    THEN [f EXCEPT !.pc = "done", !.err = err, !.logged = Append(@, err),
                   !.w = handleError(err, f.w)]
    ELSE [f EXCEPT !.pc = "done"]

\* respondWith sending the status before it knows whether the encoding worked
respondWithEarlyStatus(obj, status, w, out) ==
    LET m == MarshalToJSON(obj, IF out = "writefail" THEN "ok" ELSE out)
        h == WriteHeader(SetHeader(w, "Content-Type", <<"application/json">>), status) IN
    IF m.err # NoErr THEN [err |-> m.err, w |-> h]
    ELSE [err |-> NoErr,
          w |-> IF out = "writefail" THEN WriteFailing(h, m.data) ELSE Write(h, m.data)]

\* the result of w.Write is dropped: respondWith returns nil whether or not it failed
respondWith(obj, status, w, out) ==
    LET m == MarshalToJSON(obj, IF out = "writefail" THEN "ok" ELSE out)
        h == WriteHeader(SetHeader(w, "Content-Type", <<"application/json">>), status) IN
    IF m.err # NoErr THEN [err |-> m.err, w |-> w]
    ELSE [err |-> NoErr,
          w |-> IF out = "writefail" THEN WriteFailing(h, m.data) ELSE Write(h, m.data)]

unmarshalJSONRequest(body) ==
    IF body.kind = "unreadable" THEN [err |-> MkErr("error", "ioutil.ReadAll"), ctx |-> body]
    ELSE IF body.kind = "badjson" THEN [err |-> MkErr("error", "json.Unmarshal"), ctx |-> body]
    ELSE [err |-> NoErr, ctx |-> body]


(***************************** handlers ************************************)
\* Each handler maps (frame, data source, resource, input of the step) to the
\* frame and data source after the step.  The input is the outcome of the
\* collaborator call the step makes, or the request body the step reads.
Args(id, ids, obj, req) == [id |-> id, ids |-> ids, obj |-> obj, req |-> req]

Step(f, st) == [f |-> f, st |-> st]

\* the hook's write through its pointer lost: the handler keeps its own value
HookStepDiscard(f, st, op, in, next) ==
    LET h == ctlHook(op, f.obj, in)
        g == Called(f, op, Args(f.seg, <<>>, f.obj, <<>>), h.err, h.obj) IN
    IF h.err # NoErr THEN Step(Return(g, h.err), st)
    ELSE Step([g EXCEPT !.pc = next], st)

\* if res.controller != nil { if err := res.controller.X(r, &obj); err != nil { return err } }
HookStep(f, st, op, in, next) ==
    LET h == ctlHook(op, f.obj, in)
        g == Called(f, op, Args(f.seg, <<>>, f.obj, <<>>), h.err, h.obj) IN
    IF h.err # NoErr THEN Step(Return(g, h.err), st)
    ELSE Step([g EXCEPT !.obj = h.obj, !.pc = next], st)

\* return respondWith(obj, status, w)
RespondStep(f, st, status, in) ==
    LET r == respondWith(f.obj, status, f.w, in) IN
    Step(Return([f EXCEPT !.w = r.w], r.err), st)

\* len(ids) == 1 taken for granted: the first id is read alone
SingleIDAlways(ids) == TRUE

\* if len(ids) == 1
SingleID(ids) == Len(ids) = 1

\* only an empty document refused
OneObjectOrMore(slice) == Len(slice) >= 1

\* the negation of: if newObjs.Len() != 1 { return errors.New("expected one object ...") }
OneObject(slice) == Len(slice) = 1

\* the Location without the slash before the id
LocationNoSlash(prefix, name, id) == prefix \o name \o id

\* prefix+res.name+"/"+id
Location(prefix, name, id) == prefix \o name \o <<"/">> \o id

\* the slice left at its zero element: obj is never stored into it
UpdateTargetZero(obj) == <<ZeroRecord>>

\* updatingObjs := MakeSlice(..., 1, 1); updatingObjs.Index(0).Set(reflect.ValueOf(obj))
UpdateTarget(obj) == obj.items

AfterParse(res) == IF res.controller # "nil" THEN "hook" ELSE "mutate"
AfterRead(res) == IF res.controller # "nil" THEN "hook" ELSE "respond"

handleIndex(f, st, res, in) ==
    CASE f.pc = "read" ->
           LET req == buildRequest(f.query)
               r   == srcFindAll(st, req, in)
               g   == Called(f, "source.FindAll", Args(<<>>, <<>>, NoObj, req), r.err, r.val) IN
           IF r.err # NoErr THEN Step(Return(g, r.err), r.st)
           ELSE Step([g EXCEPT !.obj = r.val, !.pc = AfterRead(res)], r.st)
      [] f.pc = "hook" -> HookStep(f, st, "controller.FindAll", in, "respond")
      [] f.pc = "respond" -> RespondStep(f, st, 200, in)

handleRead(f, st, res, in) ==
    CASE f.pc = "read" ->
           LET ids == Split(f.seg, ",")
               req == buildRequest(f.query)
               r   == IF SingleID(ids) THEN srcFindOne(st, ids[1], req, in)
                      ELSE srcFindMultiple(st, ids, req, in)
               g   == IF SingleID(ids)
                      THEN Called(f, "source.FindOne", Args(ids[1], <<>>, NoObj, req), r.err, r.val)
                      ELSE Called(f, "source.FindMultiple", Args(<<>>, ids, NoObj, req), r.err, r.val) IN
           IF r.err # NoErr THEN Step(Return(g, r.err), r.st)
           ELSE Step([g EXCEPT !.obj = r.val, !.pc = AfterRead(res)], r.st)
      [] f.pc = "hook" -> HookStep(f, st, "controller.FindOne", in, "respond")
      [] f.pc = "respond" -> RespondStep(f, st, 200, in)

handleCreate(f, st, res, prefix, in) ==
    CASE f.pc = "parse" ->
           LET j == unmarshalJSONRequest(in)
               u == unmarshalInto(j.ctx, <<>>)
               g == [f EXCEPT !.body = in] IN
           IF j.err # NoErr THEN Step(Return(g, j.err), st)
           ELSE IF u.err # NoErr THEN Step(Return(g, u.err), st)
           ELSE IF ~OneObject(u.slice)
                THEN Step(Return(g, MkErr("expected one object in POST", "handleCreate")), st)
           ELSE Step([g EXCEPT !.obj = One(u.slice[1]), !.pc = AfterParse(res)], st)
      [] f.pc = "hook" -> HookStep(f, st, "controller.Create", in, "mutate")
      [] f.pc = "mutate" ->
           LET r == srcCreate(st, f.obj, in)
               g == Called(f, "source.Create", Args(<<>>, <<>>, f.obj, <<>>), r.err, f.obj) IN
           IF r.err # NoErr THEN Step(Return(g, r.err), r.st)
           ELSE Step([g EXCEPT !.id = r.val, !.pc = "reread",
                               !.w = SetHeader(f.w, "Location",
                                               Location(prefix, res.name, r.val))],
                     r.st)
      [] f.pc = "reread" ->
           LET req == buildRequest(f.query)
               r   == srcFindOne(st, f.id, req, in)
               g   == Called(f, "source.FindOne", Args(f.id, <<>>, NoObj, req), r.err, r.val) IN
           IF r.err # NoErr THEN Step(Return(g, r.err), r.st)
           ELSE Step([g EXCEPT !.obj = r.val, !.pc = "respond"], r.st)
      [] f.pc = "respond" -> RespondStep(f, st, 201, in)

handleUpdate(f, st, res, in) ==
    CASE f.pc = "read" ->
           LET req == buildRequest(f.query)
               r   == srcFindOne(st, f.seg, req, in)
               g   == Called(f, "source.FindOne", Args(f.seg, <<>>, NoObj, req), r.err, r.val) IN
           IF r.err # NoErr THEN Step(Return(g, r.err), r.st)
           ELSE Step([g EXCEPT !.obj = r.val, !.pc = "parse"], r.st)
      [] f.pc = "parse" ->
           LET j == unmarshalJSONRequest(in)
               u == unmarshalInto(j.ctx, UpdateTarget(f.obj))
               g == [f EXCEPT !.body = in] IN
           IF j.err # NoErr THEN Step(Return(g, j.err), st)
           ELSE IF u.err # NoErr THEN Step(Return(g, u.err), st)
           ELSE IF ~OneObject(u.slice)
                THEN Step(Return(g, MkErr("expected one object in PUT", "handleUpdate")), st)
           ELSE Step([g EXCEPT !.obj = One(u.slice[1]), !.pc = AfterParse(res)], st)
      [] f.pc = "hook" -> HookStep(f, st, "controller.Update", in, "mutate")
      [] f.pc = "mutate" ->
           LET r == srcUpdate(st, f.obj, in)
               g == Called(f, "source.Update", Args(<<>>, <<>>, f.obj, <<>>), r.err, f.obj) IN
           IF r.err # NoErr THEN Step(Return(g, r.err), r.st)
           ELSE Step(Return([g EXCEPT !.w = WriteHeader(f.w, 204)], NoErr), r.st)

\* handleDelete refusing to run on a resource without a controller
handleDeleteNeedsController(f, st, res, in) ==
    IF res.controller = "nil"
    THEN Step(Return(f, MkErr("no controller", "handleDelete")), st)
    ELSE CASE f.pc = "hook" -> HookStep(f, st, "controller.Delete", in, "mutate")
           [] f.pc = "mutate" ->
                LET r == srcDelete(st, f.seg, in)
                    g == Called(f, "source.Delete", Args(f.seg, <<>>, NoObj, <<>>), r.err, f.obj) IN
                IF r.err # NoErr THEN Step(Return(g, r.err), r.st)
                ELSE Step(Return([g EXCEPT !.w = WriteHeader(f.w, 204)], NoErr), r.st)

\* handleDelete with the hook's error dropped: Delete runs whatever the hook said
handleDeleteNoVeto(f, st, res, in) ==
    CASE f.pc = "hook" ->
           LET h == ctlHook("controller.Delete", f.obj, in) IN
           Step([Called(f, "controller.Delete", Args(f.seg, <<>>, f.obj, <<>>), h.err, h.obj)
                   EXCEPT !.pc = "mutate"], st)
      [] f.pc = "mutate" ->
           LET r == srcDelete(st, f.seg, in)
               g == Called(f, "source.Delete", Args(f.seg, <<>>, NoObj, <<>>), r.err, f.obj) IN
           IF r.err # NoErr THEN Step(Return(g, r.err), r.st)
           ELSE Step(Return([g EXCEPT !.w = WriteHeader(f.w, 204)], NoErr), r.st)

handleDelete(f, st, res, in) ==
    CASE f.pc = "hook" -> HookStep(f, st, "controller.Delete", in, "mutate")
      [] f.pc = "mutate" ->
           LET r == srcDelete(st, f.seg, in)
               g == Called(f, "source.Delete", Args(f.seg, <<>>, NoObj, <<>>), r.err, f.obj) IN
           IF r.err # NoErr THEN Step(Return(g, r.err), r.st)
           ELSE Step(Return([g EXCEPT !.w = WriteHeader(f.w, 204)], NoErr), r.st)

\* the first step of a verb's handler
FirstPc(verb, res) ==
    CASE verb = "CREATE" -> "parse"
      [] verb = "DELETE" -> IF res.controller # "nil" THEN "hook" ELSE "mutate"
      [] OTHER -> "read"

\* the inputs a step may receive
Inputs(f) ==
    CASE f.pc = "parse" -> Bodies
      [] f.pc = "hook" -> IF f.verb = "DELETE" THEN HookOutcomes \ {"replace"} ELSE HookOutcomes
      [] f.pc = "respond" -> EncodeOutcomes
      [] OTHER -> SourceOutcomes


\* one step of the handler of f's verb
StepOf(f, st, res, prefix, in) ==
    CASE f.verb = "INDEX" -> handleIndex(f, st, res, in)
      [] f.verb = "READ" -> handleRead(f, st, res, in)
      [] f.verb = "CREATE" -> handleCreate(f, st, res, prefix, in)
      [] f.verb = "UPDATE" -> handleUpdate(f, st, res, in)
      [] f.verb = "DELETE" -> handleDelete(f, st, res, in)

RECURSIVE Replay(_, _, _, _, _)
\* The handler run to its end on the inputs ins, every controller hook
\* succeeding and leaving the in-flight value as it is.
Replay(f, st, res, prefix, ins) ==
    IF f.pc = "done" \/ (f.pc # "hook" /\ ins = <<>>) THEN Step(f, st)
    ELSE IF f.pc = "hook"
         THEN LET s == StepOf(f, st, res, prefix, "ok") IN Replay(s.f, s.st, res, prefix, ins)
         ELSE LET s == StepOf(f, st, res, prefix, Head(ins)) IN
              Replay(s.f, s.st, res, prefix, Tail(ins))

(***************************** registry ************************************)
RawPrefixes == {<<>>, <<"v">>, <<"/", "v", "/">>}

\* prototypes handed to AddResource: a struct value of type P, or something else
Prototypes == {[kind |-> "struct", name |-> <<"P">>],
               [kind |-> "ptr", name |-> <<>>],
               [kind |-> "slice", name |-> <<>>]}

\* only the leading slashes trimmed
NewAPITrimLeft(prefix) ==
    LET p == TrimLeft(prefix, "/") IN
    [prefix |-> IF Len(p) > 0 THEN <<"/">> \o p \o <<"/">> ELSE <<"/">>,
     routes |-> {}]

NewAPI(prefix) ==
    LET p == Trim(prefix, "/") IN
    [prefix |-> IF Len(p) > 0 THEN <<"/">> \o p \o <<"/">> ELSE <<"/">>,
     routes |-> {}]

NoResource == [registered |-> FALSE, name |-> <<>>, controller |-> "nil"]

Route(method, path, verb) == [method |-> method, path |-> path, verb |-> verb]

\* the routes addResource hands to the router for a resource named name
RoutesOf(a, name) ==
    LET coll == a.prefix \o name
        item == a.prefix \o name \o <<"/", ":id">> IN
    {Route("OPTIONS", coll, "OPTIONS_COLL"),
     Route("OPTIONS", item, "OPTIONS_ITEM"),
     Route("GET", coll, "INDEX"),
     Route("GET", item, "READ"),
     Route("POST", coll, "CREATE"),
     Route("DELETE", item, "DELETE"),
     Route("PUT", item, "UPDATE")}

\* addResource without its DELETE route
addResourceNoDelete(a, prototype) ==
    IF prototype.kind # "struct"
    THEN [panic |-> TRUE, api |-> a, res |-> NoResource]
    ELSE LET name == jsonify(pluralize(prototype.name)) IN
         [panic |-> FALSE,
          res |-> [registered |-> TRUE, name |-> name, controller |-> "nil"],
          api |-> [a EXCEPT !.routes = @ \cup
                     {r \in RoutesOf(a, name) : r.method # "DELETE"}]]

\* addResource looking at the prototype's kind only after it added the routes
addResourceLateCheck(a, prototype) ==
    LET name == jsonify(pluralize(prototype.name)) IN
    [panic |-> prototype.kind # "struct",
     res |-> IF prototype.kind # "struct" THEN NoResource
             ELSE [registered |-> TRUE, name |-> name, controller |-> "nil"],
     api |-> [a EXCEPT !.routes = @ \cup RoutesOf(a, name)]]

\* addResource: panics on a prototype that is no struct, else adds the routes
addResource(a, prototype) ==
    IF prototype.kind # "struct"
    THEN [panic |-> TRUE, api |-> a, res |-> NoResource]
    ELSE LET name == jsonify(pluralize(prototype.name)) IN
         [panic |-> FALSE,
          res |-> [registered |-> TRUE, name |-> name, controller |-> "nil"],
          api |-> [a EXCEPT !.routes = @ \cup RoutesOf(a, name)]]

(***************************** state machine *******************************)
VARIABLES
    api,       \* the API value: prefix and routes
    res,       \* the resource the route closures share
    panicked,  \* registration panicked
    store,     \* the data source
    frame,     \* the request being served, or the last one served
    served,    \* requests dispatched so far
    hist,      \* history: the data source when the request began, and the
               \* inputs its steps have consumed
    raw,       \* the prefix argument of the NewAPI call SpecPrefix follows
    frame2     \* a second request in flight beside frame (SpecConc)

vars == <<api, res, panicked, store, frame, served, hist, raw, frame2>>

NoHist == [st0 |-> StoreOf(0), ins |-> <<>>]

Init ==
    /\ \E p \in RawPrefixes : api = NewAPI(p)
    /\ res = NoResource
    /\ panicked = FALSE
    /\ store \in InitStores
    /\ frame = IdleFrame
    /\ served = 0
    /\ hist = NoHist
    /\ raw = <<>>
    /\ frame2 = IdleFrame

Startup == ~panicked /\ ~res.registered

AddResource ==
    /\ Startup
    /\ \E proto \in Prototypes :
         LET r == addResource(api, proto) IN
         /\ api' = r.api
         /\ res' = r.res
         /\ panicked' = r.panic
    /\ UNCHANGED <<store, frame, served, hist, raw, frame2>>

\* AddResourceWithController setting the controller on a copy of the resource
\* the route closures read
AddResourceWithControllerOnCopy ==
    /\ Startup
    /\ \E proto \in Prototypes :
         LET r == addResource(api, proto) IN
         /\ api' = r.api
         /\ res' = r.res
         /\ panicked' = r.panic
    /\ UNCHANGED <<store, frame, served, hist, raw, frame2>>

\* res := api.addResource(prototype, source); res.controller = controller:
\* res points to the variable the route closures captured
AddResourceWithController ==
    /\ Startup
    /\ \E proto \in Prototypes :
         LET r == addResource(api, proto) IN
         /\ api' = r.api
         /\ res' = IF r.panic THEN r.res ELSE [r.res EXCEPT !.controller = "ctl"]
         /\ panicked' = r.panic
    /\ UNCHANGED <<store, frame, served, hist, raw, frame2>>

Serving == ~panicked /\ res.registered

\* The router hands a request to the handler its method and path select.
Dispatch ==
    /\ Serving
    /\ frame.pc = "done"
    /\ served < MaxRequests
    /\ \E rt \in {x \in api.routes : x.verb \in Verbs}, q \in Queries :
         \E seg \in IF rt.verb \in {"INDEX", "CREATE"} THEN {<<>>} ELSE Segs :
           frame' = NewFrame(rt.verb, seg, q, FirstPc(rt.verb, res))
    /\ served' = served + 1
    /\ hist' = [st0 |-> store, ins |-> <<>>]
    /\ UNCHANGED <<api, res, panicked, store, raw, frame2>>

\* the two OPTIONS routes answer at once
Options ==
    /\ Serving
    /\ frame.pc = "done"
    /\ served < MaxRequests
    /\ \E rt \in api.routes :
         /\ rt.method = "OPTIONS"
         /\ frame' = [NewFrame(rt.verb, <<>>, <<>>, "done") EXCEPT
                        !.w = WriteHeader(
                                SetHeader(NewResponse, "Allow",
                                          IF rt.verb = "OPTIONS_COLL"
                                          THEN <<"GET,POST,OPTIONS">>
                                          ELSE <<"GET,PUT,DELETE,OPTIONS">>), 204)]
    /\ served' = served + 1
    /\ hist' = [st0 |-> store, ins |-> <<>>]
    /\ UNCHANGED <<api, res, panicked, store, raw, frame2>>

Running(verb) == Serving /\ frame.verb = verb /\ frame.pc # "done"

HandleIndex ==
    /\ Running("INDEX")
    /\ \E in \in Inputs(frame) :
         LET s == handleIndex(frame, store, res, in) IN
         frame' = s.f /\ store' = s.st /\ hist' = [hist EXCEPT !.ins = Append(@, in)]
    /\ UNCHANGED <<api, res, panicked, served, raw, frame2>>

HandleRead ==
    /\ Running("READ")
    /\ \E in \in Inputs(frame) :
         LET s == handleRead(frame, store, res, in) IN
         frame' = s.f /\ store' = s.st /\ hist' = [hist EXCEPT !.ins = Append(@, in)]
    /\ UNCHANGED <<api, res, panicked, served, raw, frame2>>

HandleCreate ==
    /\ Running("CREATE")
    /\ \E in \in Inputs(frame) :
         LET s == handleCreate(frame, store, res, api.prefix, in) IN
         frame' = s.f /\ store' = s.st /\ hist' = [hist EXCEPT !.ins = Append(@, in)]
    /\ UNCHANGED <<api, res, panicked, served, raw, frame2>>

HandleUpdate ==
    /\ Running("UPDATE")
    /\ \E in \in Inputs(frame) :
         LET s == handleUpdate(frame, store, res, in) IN
         frame' = s.f /\ store' = s.st /\ hist' = [hist EXCEPT !.ins = Append(@, in)]
    /\ UNCHANGED <<api, res, panicked, served, raw, frame2>>

HandleDelete ==
    /\ Running("DELETE")
    /\ \E in \in Inputs(frame) :
         LET s == handleDelete(frame, store, res, in) IN
         frame' = s.f /\ store' = s.st /\ hist' = [hist EXCEPT !.ins = Append(@, in)]
    /\ UNCHANGED <<api, res, panicked, served, raw, frame2>>

Next ==
    \/ AddResource
    \/ AddResourceWithController
    \/ Dispatch
    \/ Options
    \/ HandleIndex
    \/ HandleRead
    \/ HandleCreate
    \/ HandleUpdate
    \/ HandleDelete

Spec == Init /\ [][Next]_vars

(************* two PUT requests served at the same time ********************)
\* The hosting server runs one handler invocation per request, concurrently;
\* each call to the data source or the controller is one atomic step.

\* the ids the two requests address
ConcIds == {IdOf(1)}

InitConc ==
    /\ \E ctl \in {"nil", "ctl"} :
         LET r == addResource(NewAPI(<<>>), [kind |-> "struct", name |-> <<"P">>]) IN
         /\ api = r.api
         /\ res = [r.res EXCEPT !.controller = ctl]
    /\ panicked = FALSE
    /\ store = StoreOf(1)
    /\ frame = IdleFrame
    /\ frame2 = IdleFrame
    /\ served = 0
    /\ hist = NoHist
    /\ raw = <<>>

\* a PUT arrives and gets the first handler invocation
PutArrives ==
    /\ Serving
    /\ frame = IdleFrame
    /\ \E rt \in {x \in api.routes : x.verb = "UPDATE"}, seg \in ConcIds :
         frame' = NewFrame(rt.verb, seg, <<>>, FirstPc(rt.verb, res))
    /\ served' = served + 1
    /\ UNCHANGED <<api, res, panicked, store, hist, raw, frame2>>

\* a PUT arrives and gets the second handler invocation
PutArrives2 ==
    /\ Serving
    /\ frame2 = IdleFrame
    /\ \E rt \in {x \in api.routes : x.verb = "UPDATE"}, seg \in ConcIds :
         frame2' = NewFrame(rt.verb, seg, <<>>, FirstPc(rt.verb, res))
    /\ served' = served + 1
    /\ UNCHANGED <<api, res, panicked, store, hist, raw, frame>>

\* the first invocation of handleUpdate takes its next step
UpdateStep ==
    /\ Serving /\ frame.verb = "UPDATE" /\ frame.pc # "done"
    /\ \E in \in Inputs(frame) :
         LET s == handleUpdate(frame, store, res, in) IN
         frame' = s.f /\ store' = s.st
    /\ UNCHANGED <<api, res, panicked, served, hist, raw, frame2>>

\* the second invocation of handleUpdate takes its next step
UpdateStep2 ==
    /\ Serving /\ frame2.verb = "UPDATE" /\ frame2.pc # "done"
    /\ \E in \in Inputs(frame2) :
         LET s == handleUpdate(frame2, store, res, in) IN
         frame2' = s.f /\ store' = s.st
    /\ UNCHANGED <<api, res, panicked, served, hist, raw, frame>>

NextConc ==
    \/ PutArrives
    \/ PutArrives2
    \/ UpdateStep
    \/ UpdateStep2

SpecConc == InitConc /\ [][NextConc]_vars

(***************** NewAPI on its own: prefix normalisation *****************)
MaxPrefixLen == 4

\* the prefixes a caller may pass: slashes, letters and digits in any order
PrefixInputs == SeqsUpTo({"/", "v", "1"}, MaxPrefixLen)

\* no API constructed yet
NoAPI == [prefix |-> <<>>, routes |-> {}]

InitPrefix ==
    /\ raw \in PrefixInputs
    /\ api = NoAPI
    /\ res = NoResource
    /\ panicked = FALSE
    /\ store = StoreOf(0)
    /\ frame = IdleFrame
    /\ served = 0
    /\ hist = NoHist
    /\ frame2 = IdleFrame

\* api := NewAPI(raw)
NewAPICall ==
    /\ api = NoAPI
    /\ api' = NewAPI(raw)
    /\ UNCHANGED <<res, panicked, store, frame, served, hist, raw, frame2>>

NextPrefix == NewAPICall

SpecPrefix == InitPrefix /\ [][NextPrefix]_vars


(***************************** claims **************************************)
WriteVerbs == {"CREATE", "UPDATE", "DELETE"}
HookOf(verb) ==
    CASE verb = "INDEX" -> "controller.FindAll"
      [] verb = "READ" -> "controller.FindOne"
      [] verb = "CREATE" -> "controller.Create"
      [] verb = "UPDATE" -> "controller.Update"
      [] verb = "DELETE" -> "controller.Delete"
      [] OTHER -> "none"
MutationOf(verb) ==
    CASE verb = "CREATE" -> "source.Create"
      [] verb = "UPDATE" -> "source.Update"
      [] verb = "DELETE" -> "source.Delete"
      [] OTHER -> "none"
Done == frame.pc = "done" /\ frame.verb \in Verbs
Failed == Done /\ frame.err # NoErr
CallNames(f) == [i \in DOMAIN f.calls |-> f.calls[i].call]
HasHeader(w, name) == name \in DOMAIN w.headers

\* C1: on a resource with a controller, every data-source mutation of a POST,
\* PUT or DELETE request comes after that request's write hook has returned
\* without error, and once the hook has failed the request makes no mutation.
C1_HookBeforeMutation ==
    (res.controller # "nil" /\ frame.verb \in WriteVerbs) =>
      \A i \in DOMAIN frame.calls :
        /\ frame.calls[i].call = MutationOf(frame.verb) =>
             \E j \in 1..(i - 1) : /\ frame.calls[j].call = HookOf(frame.verb)
                                   /\ frame.calls[j].ok
        /\ (frame.calls[i].call = HookOf(frame.verb) /\ ~frame.calls[i].ok) =>
             \A k \in DOMAIN frame.calls : frame.calls[k].call # MutationOf(frame.verb)

\* a Delete hook has vetoed the request: the hook is the only call made
C1_Witness ==
    /\ Done /\ frame.verb = "DELETE" /\ res.controller # "nil"
    /\ Len(frame.calls) = 1
    /\ frame.calls[1].call = "controller.Delete" /\ ~frame.calls[1].ok
    /\ Has(store, frame.seg)

\* C2: every finished request wrote its status exactly once, and a request that
\* ended in an error carries nothing its handler's success path set: no
\* Location header, no JSON content type, no encoded record.
C2_NoPartialResponse ==
    Done =>
      /\ frame.w.writes = 1
      /\ frame.err # NoErr =>
           /\ ~HasHeader(frame.w, "Location")
           /\ \A i \in DOMAIN frame.w.body :
                frame.w.body[i].ctype \notin {"item", "collection"}
           /\ HasHeader(frame.w, "Content-Type") =>
                frame.w.headers["Content-Type"] # <<"application/json">>

\* C3: a POST or PUT whose body is no JSON object, or whose document holds zero
\* or more than one record, is answered with a status in 400..499.
C3_ClientErrors4xx ==
    (Done /\ frame.verb \in {"CREATE", "UPDATE"}
          /\ \/ frame.body.kind = "badjson"
             \/ frame.body.kind = "doc" /\ ~frame.body.bad /\ Len(frame.body.recs) # 1) =>
      frame.w.status \in 400..499

\* C4: the response to a failed request has the HTTPError's own status, and as
\* body the JSON of its sub-errors when it has some and its message otherwise
\* (http.Error ends either with a line end); any other error gives status 500
\* and an empty body.
C4_ErrorTranslation ==
    Failed =>
      IF frame.err.kind = "HTTPError"
      THEN /\ frame.w.status = frame.err.status
           /\ Len(frame.w.body) = 2
           /\ frame.w.body[2] = [ctype |-> "text", data |-> <<"\n">>]
           /\ IF frame.err.Errors # <<>>
              THEN frame.w.body[1] = [ctype |-> "errors", data |-> frame.err.Errors]
              ELSE frame.w.body[1] = [ctype |-> "text", data |-> <<frame.err.msg>>]
      ELSE frame.w.status = 500 /\ frame.w.body = <<>>

\* a data source's HTTPError with sub-errors has been translated
C4_Witness ==
    /\ Failed /\ frame.err.kind = "HTTPError" /\ frame.err.Errors # <<>>
    /\ frame.w.status = 422
    /\ frame.err.from = "source.FindOne"


Ctl == res.controller # "nil"
SourceOps == {"source.FindAll", "source.FindOne", "source.FindMultiple",
              "source.Create", "source.Update", "source.Delete"}
\* the calls of f to the data source, in order
RECURSIVE SourceCallsFrom(_, _)
SourceCallsFrom(f, i) ==
    IF i > Len(f.calls) THEN <<>>
    ELSE (IF f.calls[i].call \in SourceOps THEN <<f.calls[i]>> ELSE <<>>)
         \o SourceCallsFrom(f, i + 1)
SourceCalls(f) == SourceCallsFrom(f, 1)
NoComma(id) == \A k \in DOMAIN id : id[k] # ","

\* e is R with exactly the fields the document names taken from the document
EqualsExcept(e, R, doc) ==
    /\ e.id = R.id
    /\ \A fld \in Fields : e[fld] = IF fld \in DOMAIN doc THEN doc[fld] ELSE R[fld]

\* C5 as stated: the record handed to the Update hook, and the record handed to
\* source.Update, is the fetched record R with the document's fields overwritten.
C5_UpdateHandsMerged ==
    frame.verb = "UPDATE" =>
      \A i \in DOMAIN frame.calls :
        frame.calls[i].call \in {"controller.Update", "source.Update"} =>
          EqualsExcept(frame.calls[i].with.obj.items[1],
                       frame.calls[1].left.items[1], frame.body.recs[1])

\* C5 amended: the record handed to the Update hook is R with the document's
\* fields overwritten; the record handed to source.Update is the one the hook
\* left in place, and is that merged record when the resource has no controller.
C5_UpdateHandsMergedToHook ==
    frame.verb = "UPDATE" =>
      \A i \in DOMAIN frame.calls :
        /\ frame.calls[i].call = "controller.Update" =>
             EqualsExcept(frame.calls[i].with.obj.items[1],
                          frame.calls[1].left.items[1], frame.body.recs[1])
        /\ frame.calls[i].call = "source.Update" =>
             IF Ctl
             THEN /\ i = 3 /\ frame.calls[2].call = "controller.Update"
                  /\ frame.calls[i].with.obj = frame.calls[2].left
             ELSE EqualsExcept(frame.calls[i].with.obj.items[1],
                               frame.calls[1].left.items[1], frame.body.recs[1])

\* a PUT naming only the title has been stored: the text is the old one
C5_Witness ==
    /\ Done /\ frame.verb = "UPDATE" /\ frame.w.status = 204
    /\ DOMAIN frame.body.recs[1] = {"title"}
    /\ frame.calls[1].left.items[1].title = "a"
    /\ store.recs[frame.seg].title = "b"
    /\ store.recs[frame.seg].text = frame.calls[1].left.items[1].text

\* C6: a successful POST called the Create hook (if any), source.Create and
\* source.FindOne(newID) in this order, and answers 201 with Location
\* <prefix><name>/<newID> and the encoding of the record FindOne returned.
C6_CreateSuccess ==
    (Done /\ frame.verb = "CREATE" /\ frame.err = NoErr) =>
      LET n     == Len(frame.calls)
          newID == IdOf(store.nextID - 1) IN
      /\ CallNames(frame) = (IF Ctl THEN <<"controller.Create">> ELSE <<>>)
                              \o <<"source.Create", "source.FindOne">>
      /\ \A i \in 1..n : frame.calls[i].ok
      /\ newID \notin DOMAIN hist.st0.recs
      /\ frame.calls[n].with.id = newID
      /\ frame.calls[n].left = One(store.recs[newID])
      /\ frame.w.status = 201 /\ frame.w.writes = 1
      /\ frame.w.headers["Location"] = api.prefix \o res.name \o <<"/">> \o newID
      /\ Head(api.prefix) = "/" /\ api.prefix[Len(api.prefix)] = "/"
      /\ frame.w.body = <<[ctype |-> "item", data |-> <<store.recs[newID]>>]>>
      /\ frame.w.body[1].data[1] # frame.calls[n - 1].with.obj.items[1]

\* a POST under the prefix /v/ has created record 2 behind a controller
C6_Witness ==
    /\ Done /\ frame.verb = "CREATE" /\ frame.w.status = 201 /\ Ctl
    /\ frame.w.headers["Location"] = <<"/", "v", "/", "p", "s", "/", "2">>
    /\ frame.w.body[1].data[1].id = <<"2">>

\* C7: a POST whose document holds zero or several records fails with the
\* "expected one object" error before any hook or data-source call; one whose
\* document holds exactly one record goes on to the Create hook (if any) and,
\* unless the hook fails, to source.Create.
C7_CreateCardinality ==
    (frame.verb = "CREATE" /\ frame.body.kind = "doc" /\ ~frame.body.bad) =>
      IF Len(frame.body.recs) # 1
      THEN /\ Done /\ frame.calls = <<>> /\ store = hist.st0
           /\ frame.err.kind = "error" /\ frame.err.msg = "expected one object in POST"
      ELSE /\ frame.err.msg # "expected one object in POST"
           /\ frame.calls = <<>> => frame.pc = (IF Ctl THEN "hook" ELSE "mutate")
           /\ frame.calls # <<>> =>
                frame.calls[1].call = (IF Ctl THEN "controller.Create" ELSE "source.Create")
           /\ (Ctl /\ Len(frame.calls) >= 1 /\ frame.calls[1].ok) =>
                \/ frame.pc = "mutate"
                \/ Len(frame.calls) >= 2 /\ frame.calls[2].call = "source.Create"

\* a POST of two records has been refused
C7_Witness ==
    /\ Done /\ frame.verb = "CREATE" /\ Len(frame.body.recs) = 2 /\ ~frame.body.bad
    /\ frame.err.msg = "expected one object in POST"

\* C8: a GET on the item path makes exactly one data-source read: FindOne with
\* the whole id segment when it holds no comma, else one FindMultiple with the
\* comma-separated elements in order; only the FindOne hook follows it.
C8_ReadOnce ==
    (frame.verb = "READ" /\ frame.pc # "read") =>
      LET c == frame.calls[1] IN
      /\ Len(SourceCalls(frame)) = 1
      /\ c.call \in {"source.FindOne", "source.FindMultiple"}
      /\ c.call = "source.FindOne" => c.with.id = frame.seg /\ NoComma(frame.seg)
      /\ c.call = "source.FindMultiple" =>
           /\ Len(c.with.ids) >= 2
           /\ Join(c.with.ids, ",") = frame.seg
           /\ \A k \in DOMAIN c.with.ids : NoComma(c.with.ids[k])
      /\ \A i \in 2..Len(frame.calls) : frame.calls[i].call = "controller.FindOne"
      /\ (Ctl /\ c.ok /\ frame.pc \in {"respond", "done"}) =>
           Len(frame.calls) = 2 /\ frame.calls[2].call = "controller.FindOne"

\* GET /ps/1,2 has been answered from one FindMultiple with both records
C8_Witness ==
    /\ Done /\ frame.verb = "READ" /\ frame.seg = <<"1", ",", "2">>
    /\ frame.w.status = 200 /\ Ctl
    /\ CallNames(frame) = <<"source.FindMultiple", "controller.FindOne">>
    /\ frame.calls[1].with.ids = << <<"1">>, <<"2">> >>
    /\ Len(frame.w.body[1].data) = 2

\* C9: on a resource with a controller the FindAll/FindOne hook of a GET is
\* called only after the read returned without error and not at all when the
\* read failed; a 200 response encodes the value the hook left in place, and a
\* failed hook makes the response that error.
C9_ReadHooks ==
    (Ctl /\ frame.verb \in {"INDEX", "READ"}) =>
      /\ \A i \in DOMAIN frame.calls :
           frame.calls[i].call = HookOf(frame.verb) =>
             i = 2 /\ frame.calls[1].call \in SourceOps /\ frame.calls[1].ok
      /\ (frame.calls # <<>> /\ ~frame.calls[1].ok) =>
           Len(frame.calls) = 1 /\ Done /\ frame.err.from = frame.calls[1].call
      /\ (Done /\ frame.w.status = 200) =>
           /\ Len(frame.calls) = 2 /\ frame.calls[2].ok
           /\ frame.w.body =
                <<[ctype |-> IF frame.calls[2].left.shape = "one" THEN "item" ELSE "collection",
                   data |-> frame.calls[2].left.items]>>
      /\ (Len(frame.calls) = 2 /\ ~frame.calls[2].ok) =>
           /\ Done /\ frame.err.from = HookOf(frame.verb)
           /\ frame.w.status = (IF frame.err.kind = "HTTPError" THEN frame.err.status ELSE 500)
           /\ frame.w.status # 200

\* a GET has been answered with what the hook put in place of the record read
C9_Witness ==
    /\ Done /\ frame.verb = "READ" /\ Ctl /\ frame.w.status = 200
    /\ frame.calls[2].left # frame.calls[1].left
    /\ frame.w.body[1].data = frame.calls[2].left.items

WithController == [res EXCEPT !.controller = "ctl"]

\* C10: a finished request on a resource without a controller made the
\* data-source calls, left the data source and gave the response that the same
\* request with the same inputs makes on a resource whose hooks all succeed
\* and leave the in-flight value alone.
C10_NoControllerAsBenign ==
    (Done /\ ~Ctl) =>
      LET b == Replay(NewFrame(frame.verb, frame.seg, frame.query,
                               FirstPc(frame.verb, WithController)),
                      hist.st0, WithController, api.prefix, hist.ins) IN
      /\ b.f.pc = "done"
      /\ [i \in DOMAIN SourceCalls(b.f) |-> SourceCalls(b.f)[i].call] =
           [i \in DOMAIN SourceCalls(frame) |-> SourceCalls(frame)[i].call]
      /\ SourceCalls(b.f) = SourceCalls(frame)
      /\ b.f.w = frame.w
      /\ b.f.err = frame.err
      /\ b.st = store

\* a PUT on a resource without a controller has been stored and answered 204
C10_Witness ==
    /\ Done /\ ~Ctl /\ frame.verb = "UPDATE" /\ frame.w.status = 204
    /\ store # hist.st0

SuccessStatus(verb) ==
    CASE verb \in {"INDEX", "READ"} -> 200
      [] verb = "CREATE" -> 201
      [] verb \in {"UPDATE", "DELETE"} -> 204
      [] OTHER -> 0
AllCallsOk(f) == \A i \in DOMAIN f.calls : f.calls[i].ok

C12_EveryFailureLogged ==
    (Done /\ (frame.err # NoErr \/ frame.w.wfail)) =>
      /\ Len(frame.logged) = 1
      /\ frame.err # NoErr
      /\ frame.logged[1] = frame.err
      /\ frame.w.status >= 400


RECURSIVE SplitAll(_)
\* the comma-split pieces of all the values of one query key, in order
SplitAll(values) ==
    IF values = <<>> THEN <<>> ELSE Split(Head(values), ",") \o SplitAll(Tail(values))
SourceReads == {"source.FindAll", "source.FindOne", "source.FindMultiple"}

\* C13: the Request handed to a data-source read maps every query key of the
\* HTTP request to the comma-split pieces of all the values given for that key,
\* in order: no value is lost, also when the key appears more than once.
C13_QueryParams ==
    \A i \in DOMAIN frame.calls :
      frame.calls[i].call \in SourceReads =>
        LET req == frame.calls[i].with.req IN
        /\ DOMAIN req = DOMAIN frame.query
        /\ \A k \in DOMAIN frame.query : req[k] = SplitAll(frame.query[k])


OnlySlashes(s) == \A i \in DOMAIN s : s[i] = "/"

\* C14: the prefix NewAPI stores is "/" when its argument is empty or all
\* slashes; otherwise it is one "/", the argument without its leading and
\* trailing slashes, and one "/".  NewAPI of a stored prefix is that prefix.
C14_PrefixNormalized ==
    api # NoAPI =>
      LET p == api.prefix
          n == Len(api.prefix) IN
      /\ IF OnlySlashes(raw) THEN p = <<"/">>
         ELSE /\ n >= 3
              /\ p[1] = "/" /\ p[n] = "/"
              /\ p[2] # "/" /\ p[n - 1] # "/"
              /\ \E i \in DOMAIN raw :
                   /\ i + n - 3 <= Len(raw)
                   /\ SubSeq(raw, i, i + n - 3) = SubSeq(p, 2, n - 1)
                   /\ OnlySlashes(SubSeq(raw, 1, i - 1))
                   /\ OnlySlashes(SubSeq(raw, i + n - 2, Len(raw)))
      /\ NewAPI(p).prefix = p

\* an argument with two leading slashes and a trailing one has been normalised
C14_Witness ==
    /\ api # NoAPI
    /\ raw = <<"/", "/", "v", "/">>
    /\ api.prefix = <<"/", "v", "/">>


OptionsVerbs == {"OPTIONS_COLL", "OPTIONS_ITEM"}

\* C15: a registered resource has exactly seven routes: OPTIONS, GET and POST
\* on <prefix><name>, OPTIONS, GET, PUT and DELETE on <prefix><name>/:id.  No
\* step after the registration changes the routes.  An OPTIONS request is
\* answered 204 with Allow: GET,POST,OPTIONS on the collection path and
\* Allow: GET,PUT,DELETE,OPTIONS on the item path, with no body and without a
\* call to the data source or the controller.
C15_SevenRoutes ==
    /\ [](/\ ~res.registered => api.routes = {}
          /\ res.registered =>
               LET coll == api.prefix \o res.name
                   item == api.prefix \o res.name \o <<"/", ":id">> IN
               /\ Cardinality(api.routes) = 7
               /\ {<<r.method, r.path>> : r \in api.routes} =
                    {<<"OPTIONS", coll>>, <<"GET", coll>>, <<"POST", coll>>,
                     <<"OPTIONS", item>>, <<"GET", item>>, <<"PUT", item>>,
                     <<"DELETE", item>>}
          /\ frame.verb \in OptionsVerbs =>
               /\ frame.pc = "done"
               /\ frame.w.status = 204 /\ frame.w.writes = 1
               /\ frame.w.body = <<>>
               /\ DOMAIN frame.w.headers = {"Allow"}
               /\ frame.w.headers["Allow"] =
                    (IF frame.verb = "OPTIONS_COLL" THEN <<"GET,POST,OPTIONS">>
                     ELSE <<"GET,PUT,DELETE,OPTIONS">>)
               /\ frame.calls = <<>>
               /\ store = hist.st0)
    /\ [][res.registered => api' = api]_vars

\* an OPTIONS request on the item path has been answered
C15_Witness ==
    /\ res.registered /\ Cardinality(api.routes) = 7
    /\ frame.verb = "OPTIONS_ITEM" /\ frame.w.status = 204
    /\ frame.w.headers["Allow"] = <<"GET,PUT,DELETE,OPTIONS">>

\* C16: a registration whose prototype is not a struct panics, and has then
\* added no route and no resource; a struct prototype does not panic.
C16_PanicBeforeRoutes ==
    /\ panicked => /\ api.routes = {}
                   /\ ~res.registered
                   /\ served = 0 /\ frame = IdleFrame
    /\ Startup =>
         \A proto \in Prototypes :
           LET r == addResource(api, proto) IN
           /\ r.panic <=> proto.kind # "struct"
           /\ r.panic => r.api = api /\ ~r.res.registered

\* a registration has panicked
C16_Witness == panicked /\ api.routes = {} /\ api.prefix = <<"/", "v", "/">>


BodyRefused(f) ==
    /\ f.body.kind # "none"
    /\ \/ f.body.kind # "doc"
       \/ f.body.bad
       \/ Len(f.body.recs) # 1

\* C17: the first step of a request that fails is its last: a failed call is
\* the last call of the request, a refused body is followed by no hook and no
\* mutation, and the error handed to handleError (the one logged) is the error
\* that step returned, unchanged.
C17_FirstErrorReturned ==
    frame.verb \in Verbs =>
      /\ \A i \in DOMAIN frame.calls :
           ~frame.calls[i].ok =>
             /\ i = Len(frame.calls)
             /\ Done /\ frame.logged = <<frame.err>>
             /\ frame.err.from = frame.calls[i].call
             /\ hist.ins[Len(hist.ins)] \in (SourceOutcomes \cup HookOutcomes) \ {"ok"} =>
                  frame.err = MkErr(hist.ins[Len(hist.ins)], frame.calls[i].call)
      /\ BodyRefused(frame) =>
           /\ Done /\ frame.logged = <<frame.err>>
           /\ AllCallsOk(frame)
           /\ \A i \in DOMAIN frame.calls :
                frame.calls[i].call \notin {HookOf(frame.verb), MutationOf(frame.verb)}
           /\ frame.err.from \in {"ioutil.ReadAll", "json.Unmarshal", "unmarshalInto",
                                  "handleCreate", "handleUpdate"}
           /\ frame.body.kind = "doc" /\ frame.body.bad =>
                frame.err = MkErr("http400", "unmarshalInto")
      /\ Failed => frame.logged = <<frame.err>>
      /\ ~Failed => frame.logged = <<>>

\* the Update hook of a PUT has failed with an HTTPError: source.Update was
\* not called and the HTTPError is the request's error
C17_Witness ==
    /\ Done /\ frame.verb = "UPDATE" /\ Ctl
    /\ CallNames(frame) = <<"source.FindOne", "controller.Update">>
    /\ ~frame.calls[2].ok
    /\ frame.err = MkErr("http422", "controller.Update")
    /\ store = hist.st0


\* the request of f was a PUT answered 204 whose Update hook, if any, left the
\* record as it was handed to it
Put204(f) ==
    /\ f.pc = "done" /\ f.verb = "UPDATE" /\ f.w.status = 204
    /\ \A i \in DOMAIN f.calls :
         f.calls[i].call = "controller.Update" => f.calls[i].left = f.calls[i].with.obj

\* C18: when two PUT requests for the same id whose documents name disjoint,
\* non-empty sets of fields have both been answered 204, the stored record has the values of
\* both documents.
C18_NoLostUpdate ==
    (/\ Put204(frame) /\ Put204(frame2)
     /\ frame.seg = frame2.seg
     /\ DOMAIN frame.body.recs[1] # {} /\ DOMAIN frame2.body.recs[1] # {}
     /\ DOMAIN frame.body.recs[1] \cap DOMAIN frame2.body.recs[1] = {}) =>
      /\ \A fld \in DOMAIN frame.body.recs[1] :
           store.recs[frame.seg][fld] = frame.body.recs[1][fld]
      /\ \A fld \in DOMAIN frame2.body.recs[1] :
           store.recs[frame.seg][fld] = frame2.body.recs[1][fld]


\* C19: a finished POST answered with a status other than 201 has left the
\* data source as it was when the request began.
C19_FailedCreateLeavesStore ==
    (Done /\ frame.verb = "CREATE" /\ frame.w.status # 201) => store = hist.st0


ControllerCalls(f) ==
    {i \in DOMAIN f.calls :
       f.calls[i].call \in {HookOf(v) : v \in Verbs}}

\* C20: a registration by AddResourceWithController leaves the resource with
\* the controller and one by AddResource leaves it without; the resource does
\* not change after its registration; every request that succeeds on a
\* resource with a controller has called the hook of its handler, a write
\* request before its mutation, and no request on a resource without a
\* controller calls a hook.
C20_ControllerSeenByHandlers ==
    /\ [][(AddResourceWithController /\ ~panicked') => res'.controller = "ctl"]_vars
    /\ [][(AddResource /\ ~panicked') => res'.controller = "nil"]_vars
    /\ [][res.registered => res' = res]_vars
    /\ [](frame.verb \in Verbs =>
           /\ ~Ctl => ControllerCalls(frame) = {}
           /\ (Ctl /\ Done /\ frame.err = NoErr) =>
                \E i \in ControllerCalls(frame) :
                  /\ frame.calls[i].call = HookOf(frame.verb)
                  /\ frame.calls[i].ok
           /\ Ctl =>
                \A i \in DOMAIN frame.calls :
                  frame.calls[i].call = MutationOf(frame.verb) =>
                    \E j \in ControllerCalls(frame) : j < i)

\* a list request on a resource with a controller has gone through the FindAll hook
C20_Witness ==
    /\ Done /\ Ctl /\ frame.verb = "INDEX" /\ frame.w.status = 200
    /\ CallNames(frame) = <<"source.FindAll", "controller.FindAll">>

=============================================================================
